---- MODULE Spec2Model ----
(***************************************************************************)
(* A model of the annotation-to-schema compiler: the untyped (JSDoc)       *)
(* extractor of parser/parseJs.ts, the typed extractor and recursive type  *)
(* resolver of parser/parseTs.ts, the assembler generateSchema and the     *)
(* orchestrator loop of index.ts.                                          *)
(*                                                                         *)
(* Text is modelled at the level the regular expressions of the code read  *)
(* it: a doc block is its tag lines (tag, braces, type text split at "|",  *)
(* name with or without brackets, bracketed list, description); a source   *)
(* unit is a sequence of doc blocks and code lines.  A JSON value is a     *)
(* record; a key that is absent in the JSON is absent in the record.  A    *)
(* JSON object whose key order matters (properties) is a sequence of       *)
(* key/value pairs with the insertion order of a JavaScript object.        *)
(***************************************************************************)
EXTENDS Integers, Sequences, FiniteSets, TLC

VARIABLES
    files,        \* the source units the glob returned, in order
    pc,           \* "run" (in the for loop), "done" (written), "caught"
    idx,          \* index of the file the loop is at
    pos,          \* ordinal of the doc block parseJsAnnotations is at
    annotations,  \* parseJsAnnotations' local accumulator
    returned,     \* the orchestrator's `annotations` of the last unit
    schemas,      \* the orchestrator's `schemas`
    wrote,        \* writeSchemas was called
    output,       \* what writeSchemas was given
    error         \* what the catch clause reported

vars == <<files, pc, idx, pos, annotations, returned, schemas, wrote, output, error>>

---------------------------------------------------------------------------
(* Bounds of the model *)

MaxDecls == 3       \* tag lines of a generated doc block
MaxElems == 3       \* elements (doc blocks, code lines) of a generated unit
MaxFiles == 2       \* source units of a run
MaxMembers == 3     \* members of a generated union or intersection type
MaxParams == 2      \* params of a generated annotation or typed function
MaxCallDepth == 6   \* nested buildJsonSchema calls the call stack holds

---------------------------------------------------------------------------
(* Generic helpers *)

SeqsUpTo(S, n) == UNION {[1..k -> S] : k \in 0..n}

SeqsFromTo(S, m, n) == UNION {[1..k -> S] : k \in m..n}

Has(r, f) == f \in DOMAIN r

RECURSIVE Concat(_)
Concat(ss) == IF ss = <<>> THEN <<>> ELSE Head(ss) \o Concat(Tail(ss))

\* A JavaScript object with string keys, as the sequence of its entries in
\* insertion order: assigning an existing key keeps the key's place.
HasKey(obj, k) == \E i \in DOMAIN obj : obj[i].key = k

Get(obj, k) == obj[CHOOSE i \in DOMAIN obj : obj[i].key = k].val

Put(obj, k, v) ==
    IF HasKey(obj, k)
    THEN [i \in DOMAIN obj |-> IF obj[i].key = k THEN [key |-> k, val |-> v] ELSE obj[i]]
    ELSE Append(obj, [key |-> k, val |-> v])

Values(obj) == [i \in DOMAIN obj |-> obj[i].val]

---------------------------------------------------------------------------
(* 4.1 Type token vocabulary *)

JSON_SCHEMA_TYPES == <<"string", "number", "integer", "boolean", "object", "array", "null">>

\* String.prototype.toLowerCase on the type tokens the model draws from.
LowerCaseOf == [String |-> "string", Object |-> "object", Enum |-> "enum", Number |-> "number"]

toLowerCase(s) == IF s \in DOMAIN LowerCaseOf THEN LowerCaseOf[s] ELSE s

includes(list, x) == \E i \in DOMAIN list : list[i] = x

\* isNaN(Number(x)) on the enum literals the model draws from: Number reads a
\* decimal literal, an exponent form and the empty string (as 0); any other
\* text is NaN.
NumericText == {"1", "2", "", "1e3"}

isNaNNumber(x) == x \notin NumericText

---------------------------------------------------------------------------
(* 4.2 Untyped-dialect extractor: one tag line *)

\* The outcome of a call that throws.
Throw(err) == [threw |-> TRUE, error |-> err]

\* A tag line as paramRegex / propertyRegex read it:
\*   tag      "param" or "property"
\*   braces   the type text is wrapped in { }, as both regexes demand
\*   rawType  the text between the braces, as its pieces between "|"
\*   bname    the name token: its text (dot-separated segments) and whether
\*            it is wrapped in [ ]
\*   list     the values of a bracketed list that opens the rest (<<>>: none)
\*   desc     the rest after the list and the leading dashes ("": the line
\*            ends after the name)
extractOptionalName(bracketed) ==
    [isOptional |-> bracketed.brackets, actualName |-> bracketed.path]

parseType(rawType) ==
    LET finalType == [i \in DOMAIN rawType |-> toLowerCase(rawType[i])]
    IN  IF Len(finalType) > 1
        THEN LET invalidSubTypes ==
                     SelectSeq(finalType, LAMBDA st : ~includes(JSON_SCHEMA_TYPES, st))
             IN  IF Len(invalidSubTypes) > 0
                 THEN Throw([message |-> "Invalid type(s) in union",
                             tokens |-> invalidSubTypes,
                             valid |-> JSON_SCHEMA_TYPES])
                 ELSE [threw |-> FALSE, isEnum |-> FALSE, finalType |-> "union",
                       unionSubTypes |-> finalType]
        ELSE IF finalType[1] = "enum"
        THEN [threw |-> FALSE, isEnum |-> TRUE, finalType |-> "any"]
        ELSE IF ~includes(JSON_SCHEMA_TYPES, finalType[1])
        THEN Throw([message |-> "Invalid type",
                    tokens |-> rawType,
                    valid |-> JSON_SCHEMA_TYPES])
        ELSE [threw |-> FALSE, isEnum |-> FALSE, finalType |-> finalType[1]]

\* The body of the @param loop: the RawParam of one matched line, or the throw.
parseParamLine(l) ==
    LET rawParam(n, typeInfo) ==
            IF typeInfo.threw THEN typeInfo
            ELSE
            LET bracketMatch == typeInfo.isEnum /\ l.list # <<>>
                type == IF bracketMatch
                        THEN IF \A i \in DOMAIN l.list : ~isNaNNumber(l.list[i])
                             THEN "number" ELSE "string"
                        ELSE typeInfo.finalType
                rp == [isProperty |-> FALSE, isEnum |-> typeInfo.isEnum, type |-> type,
                       name |-> n.actualName, description |-> l.desc,
                       isOptional |-> n.isOptional]
                       @@ (IF bracketMatch THEN [enumValues |-> l.list] ELSE <<>>)
                       @@ (IF Has(typeInfo, "unionSubTypes")
                           THEN [unionSubTypes |-> typeInfo.unionSubTypes] ELSE <<>>)
            IN  [threw |-> FALSE, rp |-> rp]
    IN  rawParam(extractOptionalName(l.bname), parseType(l.rawType))

\* The body of the @property loop: no bracketed list is read here.
parsePropertyLine(l) ==
    LET rawParam(n, typeInfo) ==
            IF typeInfo.threw THEN typeInfo
            ELSE [threw |-> FALSE,
                  rp |-> [isProperty |-> TRUE, isEnum |-> typeInfo.isEnum,
                          type |-> typeInfo.finalType,
                          name |-> n.actualName, description |-> l.desc,
                          isOptional |-> n.isOptional]
                         @@ (IF Has(typeInfo, "unionSubTypes")
                             THEN [unionSubTypes |-> typeInfo.unionSubTypes]
                             ELSE <<>>)]
    IN  rawParam(extractOptionalName(l.bname), parseType(l.rawType))

RECURSIVE Join(_, _)
Join(parts, sep) ==
    IF parts = <<>> THEN ""
    ELSE IF Len(parts) = 1 THEN parts[1]
    ELSE parts[1] \o sep \o Join(Tail(parts), sep)

\* The text of a tag line of a doc block, behind its "*" decoration.
LineText(l) ==
    "* @" \o l.tag \o " "
    \o (IF l.braces THEN "{" \o Join(l.rawType, "|") \o "}" ELSE Join(l.rawType, "|"))
    \o " "
    \o (IF l.bname.brackets THEN "[" \o Join(l.bname.path, ".") \o "]"
        ELSE Join(l.bname.path, "."))
    \o (IF l.list # <<>> THEN " [" \o Join(l.list, ", ") \o "]" ELSE "")
    \o (IF l.desc # "" THEN " " \o l.desc ELSE "")

\* Nothing follows the name on the line.
EndsAfterName(l) == l.list = <<>> /\ l.desc = ""

\* regex.exec in a loop, from the i-th line on.  The \s*(.*) that ends both
\* regexes runs over the line break when nothing follows the name: the match
\* then takes the text of the next line as its rest, and the search resumes
\* behind that line.
RECURSIVE execFrom(_, _, _, _)
execFrom(lines, tag, i, matches) ==
    IF i > Len(lines) THEN matches
    ELSE IF lines[i].tag = tag /\ lines[i].braces
    THEN IF EndsAfterName(lines[i]) /\ i < Len(lines)
         THEN execFrom(lines, tag, i + 2,
                       Append(matches, [lines[i] EXCEPT !.desc = LineText(lines[i + 1])]))
         ELSE execFrom(lines, tag, i + 1, Append(matches, lines[i]))
    ELSE execFrom(lines, tag, i + 1, matches)

\* The lines a regex of the given tag matches, in source order.
MatchedLines(doc, tag) == execFrom(doc.lines, tag, 1, <<>>)

\* All @param lines are parsed before any @property line; the first parseType
\* that throws ends the call.
parseParamAndPropertyLines(doc) ==
    LET outcome(parsed) ==
            IF \E i \in DOMAIN parsed : parsed[i].threw
            THEN parsed[CHOOSE i \in DOMAIN parsed :
                            /\ parsed[i].threw
                            /\ \A j \in 1..(i - 1) : ~parsed[j].threw]
            ELSE [threw |-> FALSE, params |-> [i \in DOMAIN parsed |-> parsed[i].rp]]
        each(ps, qs) ==
            outcome([i \in DOMAIN ps |-> parseParamLine(ps[i])]
                    \o [i \in DOMAIN qs |-> parsePropertyLine(qs[i])])
    IN  each(MatchedLines(doc, "param"), MatchedLines(doc, "property"))

---------------------------------------------------------------------------
(* 4.2 Untyped-dialect extractor: the fold *)

createBaseSchema(rp) ==
    IF Has(rp, "unionSubTypes") /\ Len(rp.unionSubTypes) > 0
    THEN [oneOf |-> [i \in DOMAIN rp.unionSubTypes |->
                        LET lc == toLowerCase(rp.unionSubTypes[i])
                        IN  IF includes(JSON_SCHEMA_TYPES, lc)
                            THEN [type |-> lc] ELSE [type |-> "any"]],
          description |-> rp.description]
    ELSE IF rp.isEnum /\ Has(rp, "enumValues")
    THEN [type |-> rp.type, enum |-> rp.enumValues, description |-> rp.description]
    ELSE [type |-> rp.type, description |-> rp.description]

\* "user.name".startsWith("user" + "."), on names held as their segments.
startsWithDot(name, parentName) ==
    /\ Len(name) > Len(parentName)
    /\ SubSeq(name, 1, Len(parentName)) = parentName

\* sp.name.slice(parentName.length + 1)
fieldOf(parentName, sp) == SubSeq(sp.name, Len(parentName) + 1, Len(sp.name))

RECURSIVE subPropsObject(_, _, _)
subPropsObject(parentName, subProps, props) ==
    IF subProps = <<>> THEN props
    ELSE subPropsObject(parentName, Tail(subProps),
                        Put(props, fieldOf(parentName, Head(subProps)),
                            createBaseSchema(Head(subProps))))

buildSubProperties(parentName, subProps) ==
    LET req == SelectSeq(subProps, LAMBDA sp : ~sp.isOptional)
    IN  [properties |-> subPropsObject(parentName, subProps, <<>>),
         required |-> [i \in DOMAIN req |-> fieldOf(parentName, req[i])]]

RECURSIVE topLevelObject(_, _)
topLevelObject(rawParams, topLevel) ==
    IF rawParams = <<>> THEN topLevel
    ELSE topLevelObject(Tail(rawParams),
                        IF ~Head(rawParams).isProperty
                        THEN Put(topLevel, Head(rawParams).name, Head(rawParams))
                        ELSE topLevel)

\* The ParsedParamSchema of one top-level RawParam.
foldParam(rp, propertyMap) ==
    LET schema(base, subProps, sub) ==
            IF Has(base, "type") /\ base.type = "object" /\ Len(subProps) > 0
            THEN IF Len(sub.required) > 0
                 THEN base @@ [properties |-> sub.properties, required |-> sub.required]
                 ELSE base @@ [properties |-> sub.properties]
            ELSE base
        withSubProps(subProps) ==
            schema(createBaseSchema(rp), subProps, buildSubProperties(rp.name, subProps))
    IN  [name |-> rp.name, description |-> rp.description,
         schema |-> withSubProps(SelectSeq(propertyMap,
                                           LAMBDA p : startsWithDot(p.name, rp.name))),
         isOptional |-> rp.isOptional]
        @@ (IF Has(rp, "enumValues") THEN [enum |-> rp.enumValues] ELSE <<>>)

buildParamSchemas(rawParams) ==
    LET fold(topLevel, propertyMap) ==
            [i \in DOMAIN topLevel |-> foldParam(topLevel[i], propertyMap)]
    IN  fold(Values(topLevelObject(rawParams, <<>>)),
             SelectSeq(rawParams, LAMBDA rp : rp.isProperty))

---------------------------------------------------------------------------
(* 4.5 Schema assembler *)

\* The property of one param: the fragment, the description on top, the
\* param's enum on top when it is a non-empty list.
finalSchemaOf(p) ==
    LET finalSchema == [description |-> p.description] @@ p.schema
    IN  IF Has(p, "enum") /\ Len(p.enum) > 0
        THEN [enum |-> p.enum] @@ finalSchema
        ELSE finalSchema

RECURSIVE propertiesObject(_, _)
propertiesObject(params, properties) ==
    IF params = <<>> THEN properties
    ELSE propertiesObject(Tail(params),
                          Put(properties, Head(params).name, finalSchemaOf(Head(params))))

\* !isOptional: a missing flag is undefined, which is falsy.
notOptional(p) == ~(Has(p, "isOptional") /\ p.isOptional)

requiredOf_All(params) == [i \in DOMAIN params |-> params[i].name]

requiredOf(params) ==
    LET req == SelectSeq(params, notOptional)
    IN  [i \in DOMAIN req |-> req[i].name]

generateSchema(a) ==
    [type |-> "function",
     function |-> [name |-> a.functionName,
                   description |-> a.notice,
                   parameters |-> [type |-> "object",
                                   properties |-> propertiesObject(a.params, <<>>),
                                   required |-> requiredOf(a.params)]]]

---------------------------------------------------------------------------
(* 4.2 Untyped-dialect extractor: doc blocks and source units *)

\* A doc block as annotationRegex and parseDocBlock read it:
\*   prefixed   every line of the block sits behind a // marker
\*   multiline  the block spans more than one line
\*   leading    the free-text lines before the first tag line, decoration stripped
\*   descTags   the texts of its @description tags ("": nothing follows the
\*              tag on its line), which come before the other tag lines
\*   lines      its @param / @property tag lines
\* A code line is a function declaration (its name, whether the line is behind
\* a // marker, and the shape of the declaration) or any other code.

\* The test /^\s*\/\/.*$/m on the matched text: the match starts at the "/**",
\* so only the lines after the first can start with "//".
isCommentedOut(doc) == doc.prefixed /\ doc.multiline

RECURSIVE joinLeading(_, _)
joinLeading(lines, desc) ==
    IF lines = <<>> THEN desc
    ELSE IF Head(lines) = "" THEN joinLeading(Tail(lines), desc)
    ELSE joinLeading(Tail(lines),
                     (IF desc # "" THEN desc \o " " ELSE desc) \o Head(lines))

extractLeadingDescription(doc) == joinLeading(doc.leading, "")

\* The text of an @description line of a doc block, behind its "*" decoration.
DescriptionLineText(text) ==
    "* @description" \o (IF text # "" THEN " " \o text ELSE "")

\* /@description\s+([^\r\n]+)/.exec(doc): the text behind the first
\* @description tag.  When nothing follows the tag on its line, the \s+ runs
\* over the line break and the match takes the text of the next line; a tag
\* that ends the block matches nothing.
descMatch(doc) ==
    IF doc.descTags = <<>> THEN ""
    ELSE IF doc.descTags[1] # "" THEN doc.descTags[1]
    ELSE IF Len(doc.descTags) > 1 THEN DescriptionLineText(doc.descTags[2])
    ELSE IF doc.lines # <<>> THEN LineText(doc.lines[1])
    ELSE ""

parseDocBlock(doc) ==
    LET leadingDescription == extractLeadingDescription(doc)
        explicitDescription == descMatch(doc)
        finalDescription == IF explicitDescription # ""
                            THEN explicitDescription ELSE leadingDescription
        result(raw) ==
            IF raw.threw THEN raw
            ELSE [threw |-> FALSE, finalDescription |-> finalDescription,
                  rawParams |-> raw.params]
    IN  result(parseParamAndPropertyLines(doc))

\* The declaration shapes the twelve patterns match: an arrow function bound
\* with const (exported or not, async or not), a function declaration
\* (exported or not, async or not).
RecognizedShapes == {"constArrow", "function"}

\* The first line of the remainder that is neither blank nor a // line and
\* that matches a pattern gives the name; no line of a doc block matches.
findNextFunctionName(remaining) ==
    LET hits == SelectSeq(remaining,
                          LAMBDA e : /\ e.k = "fn"
                                     /\ ~e.commented
                                     /\ e.shape \in RecognizedShapes)
    IN  IF hits = <<>> THEN "unknown" ELSE hits[1].name

\* The places of the doc blocks of a unit: the matches of annotationRegex.
DocPositions(unit) ==
    SelectSeq([i \in 1..Len(unit.elems) |-> i], LAMBDA i : unit.elems[i].k = "doc")

\* content.slice(docBlockEndIndex)
Remaining(unit, at) == SubSeq(unit.elems, at + 1, Len(unit.elems))

\* One turn of the while loop, at the n-th doc block of the unit: the block is
\* skipped as commented out, parseDocBlock throws, the block is skipped for
\* want of a function name, or an annotation is pushed.
blockStep(unit, n) ==
    LET parsedBlock(d, fnName) ==
            IF d.threw THEN [kind |-> "throw", error |-> d.error]
            ELSE IF fnName = "unknown" THEN [kind |-> "unknown"]
            ELSE [kind |-> "push",
                  annotation |-> [notice |-> d.finalDescription,
                                  functionName |-> fnName,
                                  params |-> buildParamSchemas(d.rawParams)]]
        blockAt(at) ==
            IF isCommentedOut(unit.elems[at]) THEN [kind |-> "commentedOut"]
            ELSE parsedBlock(parseDocBlock(unit.elems[at]),
                             findNextFunctionName(Remaining(unit, at)))
    IN  blockAt(DocPositions(unit)[n])

\* The whole call, for a unit: the annotations, or the throw.
RECURSIVE parseBlocksFrom(_, _, _)
parseBlocksFrom(unit, n, acc) ==
    LET after(st) ==
            IF st.kind = "throw" THEN Throw(st.error)
            ELSE IF st.kind = "push"
            THEN parseBlocksFrom(unit, n + 1, Append(acc, st.annotation))
            ELSE parseBlocksFrom(unit, n + 1, acc)
    IN  IF n > Len(DocPositions(unit)) THEN [threw |-> FALSE, annotations |-> acc]
        ELSE after(blockStep(unit, n))

parseJsAnnotations(unit) == parseBlocksFrom(unit, 1, <<>>)

---------------------------------------------------------------------------
(* 4.3 / 4.4 Typed dialect: the types the checker hands to the resolver *)

\* A ts.Type as buildJsonSchema reads it:
\*   flags             those of String, Number, Boolean, Undefined,
\*                     StringLiteral, Any, Null the type carries
\*   value             the text of a string literal type
\*   union, types      isUnion() and its members
\*   intersection      isIntersection() (members in types)
\*   array, typeArguments   checker.isArrayType and the element type
\*   classOrInterface  isClassOrInterface()
\*   properties        getProperties(): symbols [name, optional, hasDecl, type]
\* A type that a declaration names is referred to as [ref |-> name]: every
\* reference to it is the same ts.Type object, so a declared type can have
\* itself as the type of a member.
NoType ==
    [flags |-> {}, value |-> "", union |-> FALSE, intersection |-> FALSE,
     types |-> <<>>, array |-> FALSE, typeArguments |-> <<>>,
     classOrInterface |-> FALSE, properties |-> <<>>]

TString == [NoType EXCEPT !.flags = {"String"}]
TNumber == [NoType EXCEPT !.flags = {"Number"}]
TUndefined == [NoType EXCEPT !.flags = {"Undefined"}]
TNull == [NoType EXCEPT !.flags = {"Null"}]
TAny == [NoType EXCEPT !.flags = {"Any"}]
TStringLiteral(v) == [NoType EXCEPT !.flags = {"StringLiteral"}, !.value = v]
\* boolean is the union false | true carrying the Boolean flag
TBooleanLiteral == [NoType EXCEPT !.flags = {"BooleanLiteral"}]
TBoolean == [NoType EXCEPT !.flags = {"Boolean"}, !.union = TRUE,
                           !.types = <<TBooleanLiteral, TBooleanLiteral>>]
TArray(elem) == [NoType EXCEPT !.array = TRUE, !.typeArguments = <<elem>>]
TInterface(props) == [NoType EXCEPT !.classOrInterface = TRUE, !.properties = props]
TLiteralType(props) == [NoType EXCEPT !.properties = props]
TUnion(members) == [NoType EXCEPT !.union = TRUE, !.types = members]
TIntersection(members, props) ==
    [NoType EXCEPT !.intersection = TRUE, !.types = members, !.properties = props]
\* An unconstrained type parameter: none of the flags the resolver tests.
TTypeParameter == [NoType EXCEPT !.flags = {"TypeParameter"}]
TRef(name) == [ref |-> name]

Sym(name, optional, type) ==
    [name |-> name, optional |-> optional, hasDecl |-> TRUE, type |-> type]

\* Under strict null checks the type of an optional member includes undefined.
OptSym(name, type) == Sym(name, TRUE, TUnion(<<TUndefined, type>>))

\* The declared (named) types of the program under analysis.
Declared ==
    [User    |-> TInterface(<<Sym("name", FALSE, TString), OptSym("age", TNumber)>>),
     Node    |-> TInterface(<<Sym("value", FALSE, TString), Sym("next", FALSE, TRef("Node"))>>),
     Tree    |-> TInterface(<<Sym("children", FALSE, TArray(TRef("Tree")))>>),
     Ping    |-> TInterface(<<OptSym("pong", TRef("Pong"))>>),
     Pong    |-> TInterface(<<Sym("ping", FALSE, TUnion(<<TRef("Ping"), TString>>))>>)]

Deref(t) == IF Has(t, "ref") THEN Declared[t.ref] ELSE t

HasFlag(t, f) == f \in Deref(t).flags

null == [null |-> TRUE]

isOptionalProp(prop, propType) ==
    LET optionalFlag == prop.optional
        includesUndefined ==
            /\ propType.union
            /\ \E i \in DOMAIN propType.types : HasFlag(propType.types[i], "Undefined")
    IN  optionalFlag \/ includesUndefined

removeUndefinedFromUnion(type) ==
    LET rest(filtered) ==
            IF Len(filtered) = 0 THEN TAny
            ELSE IF Len(filtered) = 1 THEN filtered[1]
            ELSE null
    IN  IF ~type.union THEN type
        ELSE rest(SelectSeq(type.types, LAMBDA t : ~HasFlag(t, "Undefined")))

\* A call that exceeds the call stack throws a RangeError.
StackOverflow == Throw([message |-> "Maximum call stack size exceeded"])

IsThrow(r) == Has(r, "threw")

unionSchema_Wrapped(subSchemas) == [oneOf |-> subSchemas]

\* The union branch once the members are resolved.
unionSchema(subSchemas) ==
    LET collapse(nonAny) ==
            IF Len(nonAny) = 0 THEN [type |-> "any"]
            ELSE IF Len(nonAny) = 1 THEN nonAny[1]
            ELSE IF \A i \in DOMAIN nonAny :
                        /\ Has(nonAny[i], "enum")
                        /\ Has(nonAny[i], "type") /\ nonAny[i].type = "string"
            THEN [type |-> "string",
                  enum |-> Concat([i \in DOMAIN nonAny |-> nonAny[i].enum])]
            ELSE [oneOf |-> nonAny]
    IN  collapse(SelectSeq(subSchemas,
                           LAMBDA sch : ~(Has(sch, "type") /\ sch.type = "any"
                                          /\ Cardinality(DOMAIN sch) = 1)))

intersectionSchema_NoAny(variants) ==
    [allOf |-> SelectSeq(variants, LAMBDA sch : sch # [type |-> "any"])]

\* The intersection branch once the members are resolved.
intersectionSchema(variants) == [allOf |-> variants]

\* The object branch once the members are resolved.
objectSchema(props, subSchemas) ==
    LET names(req) == [i \in DOMAIN req |-> req[i].name]
    IN  [type |-> "object",
         properties |-> [i \in DOMAIN props |->
                            [key |-> props[i].name, val |-> subSchemas[i]]],
         required |-> names(SelectSeq(props,
                                      LAMBDA prop : prop.hasDecl
                                                    /\ ~isOptionalProp(prop, Deref(prop.type))))]

\* The throw among the results of nested calls, if there is one.
AnyThrow(results) == \E i \in DOMAIN results : IsThrow(results[i])

RECURSIVE buildJsonSchema(_, _)
buildJsonSchema(t, depth) ==
    LET reassigned(given, withoutUndef) ==
            IF withoutUndef # null THEN Deref(withoutUndef) ELSE given
        arraySchema(items) ==
            IF IsThrow(items) THEN items ELSE [type |-> "array", items |-> items]
        ofProperties(ty, subSchemas) ==
            IF AnyThrow(subSchemas) THEN StackOverflow
            ELSE objectSchema(ty.properties, subSchemas)
        ofUnion(subSchemas) ==
            IF AnyThrow(subSchemas) THEN StackOverflow ELSE unionSchema(subSchemas)
        ofIntersection(variants) ==
            IF AnyThrow(variants) THEN StackOverflow ELSE intersectionSchema(variants)
        branch(ty) ==
            IF "StringLiteral" \in ty.flags THEN [type |-> "string", enum |-> <<ty.value>>]
            ELSE IF "String" \in ty.flags THEN [type |-> "string"]
            ELSE IF "Number" \in ty.flags THEN [type |-> "number"]
            ELSE IF "Boolean" \in ty.flags THEN [type |-> "boolean"]
            ELSE IF ty.array
            THEN IF Len(ty.typeArguments) > 0
                 THEN arraySchema(buildJsonSchema(ty.typeArguments[1], depth - 1))
                 ELSE [type |-> "array", items |-> [type |-> "any"]]
            ELSE IF ty.classOrInterface \/ Len(ty.properties) > 0
            THEN ofProperties(ty, [i \in DOMAIN ty.properties |->
                                      IF ~ty.properties[i].hasDecl THEN [type |-> "any"]
                                      ELSE buildJsonSchema(ty.properties[i].type, depth - 1)])
            ELSE IF ty.union
            THEN ofUnion([i \in DOMAIN ty.types |-> buildJsonSchema(ty.types[i], depth - 1)])
            ELSE IF ty.intersection
            THEN ofIntersection([i \in DOMAIN ty.types |->
                                    buildJsonSchema(ty.types[i], depth - 1)])
            ELSE [type |-> "any"]
    IN  IF depth = 0 THEN StackOverflow
        ELSE branch(reassigned(Deref(t), removeUndefinedFromUnion(Deref(t))))

---------------------------------------------------------------------------
(* 4.3 Typed-dialect extractor *)

\* A function node as parseTsAnnotations reads it:
\*   kind        "function" (a function declaration), "arrowVariable" (a
\*               variable declaration initialised with an arrow function)
\*   hasName, name   the declaration's identifier, when it has one
\*   tags        its JSDoc tags [tagName, name, comment]
\*   parameters  [binding, name, hasType, type, questionToken, elements]:
\*               binding is "identifier" or "object" (a destructuring
\*               pattern, whose elements are [isIdentifier, name])
extractNotice(jsDocTags) ==
    LET found == SelectSeq(jsDocTags, LAMBDA tg : tg.tagName = "notice")
    IN  IF found # <<>> THEN found[1].comment ELSE ""

\* findJsDocParam and the reading of its comment: the trimmed text of the
\* first @param tag of that name, "" when there is none.
findJsDocParam(jsDocTags, paramName) ==
    LET found == SelectSeq(jsDocTags,
                           LAMBDA tg : tg.tagName = "param" /\ tg.name = paramName)
    IN  IF found # <<>> THEN found[1].comment ELSE ""

getSubPropertyType(param, propName) ==
    LET typeOf(found) ==
            IF found = <<>> THEN TAny
            ELSE IF ~found[1].hasDecl THEN TAny
            ELSE found[1].type
    IN  IF ~param.hasType THEN TAny
        ELSE typeOf(SelectSeq(Deref(param.type).properties, LAMBDA sy : sy.name = propName))

\* A non-destructured param: {name, description, schema}, or the throw.
buildParamSchema(param, jsDocTags) ==
    LET built(paramName, schema) ==
            IF IsThrow(schema) THEN schema
            ELSE [name |-> <<paramName>>,
                  description |-> findJsDocParam(jsDocTags, paramName),
                  schema |-> schema]
    IN  built(IF param.binding = "identifier" THEN param.name ELSE "anonymousParam",
              IF ~param.hasType THEN [type |-> "any"]
              ELSE buildJsonSchema(param.type, MaxCallDepth))

\* A destructured param: one entry per bound identifier.
expandBinding(param, jsDocTags) ==
    LET pushed(propName, schema) ==
            IF IsThrow(schema) THEN schema
            ELSE [name |-> <<propName>>,
                  description |-> findJsDocParam(jsDocTags, propName),
                  schema |-> schema]
        each(bound) ==
            [i \in DOMAIN bound |->
                pushed(bound[i].name,
                       buildJsonSchema(getSubPropertyType(param, bound[i].name),
                                       MaxCallDepth))]
    IN  each(SelectSeq(param.elements, LAMBDA el : el.isIdentifier))

expandParameters(tsParams, jsDocTags) ==
    LET outcome(result) ==
            IF AnyThrow(result) THEN StackOverflow
            ELSE [threw |-> FALSE, params |-> result]
    IN  outcome(Concat([i \in DOMAIN tsParams |->
                           IF tsParams[i].binding = "object"
                           THEN expandBinding(tsParams[i], jsDocTags)
                           ELSE <<buildParamSchema(tsParams[i], jsDocTags)>>]))

\* parseFunctionDeclaration / parseArrowFunctionVariable
parseFunctionNode(node) ==
    LET pushed(params) ==
            IF params.threw THEN params
            ELSE [threw |-> FALSE,
                  annotation |-> [notice |-> extractNotice(node.tags),
                                  functionName |-> IF node.hasName THEN node.name
                                                   ELSE "anonymous",
                                  params |-> params.params]]
    IN  pushed(expandParameters(node.parameters, node.tags))

\* visit: a function declaration is parsed when it has a name, a variable
\* declaration when its initialiser is an arrow function.
Visited(node) ==
    \/ node.kind = "function" /\ node.hasName
    \/ node.kind = "arrowVariable"

parseTsAnnotations(unit) ==
    LET outcome(parsed) ==
            IF \E i \in DOMAIN parsed : parsed[i].threw THEN StackOverflow
            ELSE [threw |-> FALSE,
                  annotations |-> [i \in DOMAIN parsed |-> parsed[i].annotation]]
        each(nodes) == outcome([i \in DOMAIN nodes |-> parseFunctionNode(nodes[i])])
    IN  IF ~unit.found THEN Throw([message |-> "File not found"])
        ELSE each(SelectSeq(unit.nodes, Visited))

---------------------------------------------------------------------------
(* The orchestrator: for each file, parse and assemble; then write *)

\* parseAnnotations: the typed extractor for a .ts path, the untyped extractor
\* on the file's text otherwise.
parseAnnotations(unit) ==
    IF unit.dialect = "ts" THEN parseTsAnnotations(unit) ELSE parseJsAnnotations(unit)

InLoop == pc = "run" /\ idx <= Len(files)

AtBlock ==
    /\ InLoop
    /\ files[idx].dialect = "js"
    /\ pos <= Len(DocPositions(files[idx]))

\* parseJsAnnotations: the doc block is commented out; continue.
BlockCommentedOut ==
    /\ AtBlock
    /\ blockStep(files[idx], pos).kind = "commentedOut"
    /\ pos' = pos + 1
    /\ UNCHANGED <<files, pc, idx, annotations, returned, schemas, wrote, output, error>>

\* parseJsAnnotations: parseType throws; the error leaves parseAnnotations and
\* the for loop and is reported by the catch clause.
BlockThrows ==
    /\ AtBlock
    /\ blockStep(files[idx], pos).kind = "throw"
    /\ pc' = "caught"
    /\ error' = blockStep(files[idx], pos).error
    /\ annotations' = <<>>
    /\ UNCHANGED <<files, idx, pos, returned, schemas, wrote, output>>

\* parseJsAnnotations: no function name follows; continue.
BlockUnknownFn ==
    /\ AtBlock
    /\ blockStep(files[idx], pos).kind = "unknown"
    /\ pos' = pos + 1
    /\ UNCHANGED <<files, pc, idx, annotations, returned, schemas, wrote, output, error>>

\* parseJsAnnotations: the annotation of the block is pushed.
BlockPush ==
    /\ AtBlock
    /\ blockStep(files[idx], pos).kind = "push"
    /\ annotations' = Append(annotations, blockStep(files[idx], pos).annotation)
    /\ pos' = pos + 1
    /\ UNCHANGED <<files, pc, idx, returned, schemas, wrote, output, error>>

\* parseJsAnnotations returns; the loop body maps generateSchema over the
\* annotations and appends the documents.
JsFileDone ==
    /\ InLoop
    /\ files[idx].dialect = "js"
    /\ pos > Len(DocPositions(files[idx]))
    /\ returned' = annotations
    /\ schemas' = schemas \o [i \in DOMAIN annotations |-> generateSchema(annotations[i])]
    /\ annotations' = <<>>
    /\ pos' = 1
    /\ idx' = idx + 1
    /\ UNCHANGED <<files, pc, wrote, output, error>>

\* The loop body for a typed unit that parses.
TsFile ==
    /\ InLoop
    /\ files[idx].dialect = "ts"
    /\ LET body(r) ==
               /\ ~r.threw
               /\ returned' = r.annotations
               /\ schemas' = schemas \o [i \in DOMAIN r.annotations |->
                                            generateSchema(r.annotations[i])]
       IN  body(parseTsAnnotations(files[idx]))
    /\ idx' = idx + 1
    /\ UNCHANGED <<files, pc, pos, annotations, wrote, output, error>>

\* The loop body for a typed unit whose parse throws.
TsFileThrows ==
    /\ InLoop
    /\ files[idx].dialect = "ts"
    /\ LET body(r) ==
               /\ r.threw
               /\ error' = r.error
       IN  body(parseTsAnnotations(files[idx]))
    /\ pc' = "caught"
    /\ UNCHANGED <<files, idx, pos, annotations, returned, schemas, wrote, output>>

\* After the loop: writeSchemas(OUTPUT_FILE, schemas).
WriteSchemas ==
    /\ pc = "run"
    /\ idx > Len(files)
    /\ wrote' = TRUE
    /\ output' = schemas
    /\ pc' = "done"
    /\ UNCHANGED <<files, idx, pos, annotations, returned, schemas, error>>

\* annotations.map(generateSchema), on annotations given to it directly.
Assemble ==
    /\ pc = "assemble"
    /\ schemas' = [i \in DOMAIN returned |-> generateSchema(returned[i])]
    /\ pc' = "assembled"
    /\ UNCHANGED <<files, idx, pos, annotations, returned, wrote, output, error>>

NoError == [message |-> ""]

StartWith(fs) ==
    /\ files = fs
    /\ pc = "run"
    /\ idx = 1
    /\ pos = 1
    /\ annotations = <<>>
    /\ returned = <<>>
    /\ schemas = <<>>
    /\ wrote = FALSE
    /\ output = <<>>
    /\ error = NoError

---------------------------------------------------------------------------
(* The inputs the specifications draw from *)

Line(tag, braces, rawType, brackets, path, list, desc) ==
    [tag |-> tag, braces |-> braces, rawType |-> rawType,
     bname |-> [brackets |-> brackets, path |-> path],
     list |-> list, desc |-> desc]

ParamLines ==
    { Line("param", TRUE, <<"string">>, FALSE, <<"user">>, <<>>, "The user"),
      Line("param", TRUE, <<"object">>, FALSE, <<"user">>, <<>>, "The user object"),
      Line("param", TRUE, <<"Object">>, TRUE, <<"user">>, <<>>, "An optional user"),
      Line("param", TRUE, <<"number", "string">>, FALSE, <<"token">>, <<>>, "The token"),
      Line("param", TRUE, <<"string", "String">>, TRUE, <<"token">>, <<>>, "An optional token"),
      Line("param", TRUE, <<"obj">>, FALSE, <<"user">>, <<>>, "desc"),
      Line("param", TRUE, <<"number", "obj", "foo">>, FALSE, <<"token">>, <<>>, "desc"),
      Line("param", TRUE, <<"enum">>, FALSE, <<"status">>, <<"active", "inactive">>, "The status"),
      Line("param", TRUE, <<"enum">>, FALSE, <<"status">>, <<"1", "1e3">>, "The level"),
      Line("param", TRUE, <<"Enum">>, TRUE, <<"status">>, <<"1", "active", "1">>, "An optional status"),
      Line("param", TRUE, <<"enum">>, FALSE, <<"status">>, <<>>, "No list"),
      Line("param", FALSE, <<"enum">>, FALSE, <<"status">>, <<"active", "inactive">>, "No braces"),
      Line("param", TRUE, <<"string">>, FALSE, <<"user", "name">>, <<>>, "A dotted param"),
      Line("param", TRUE, <<"object">>, FALSE, <<"user">>, <<>>, ""),
      Line("param", TRUE, <<"enum">>, FALSE, <<"status">>, <<>>, "") }

PropertyLines ==
    { Line("property", TRUE, <<"string">>, FALSE, <<"user", "name">>, <<>>, "The name"),
      Line("property", TRUE, <<"number">>, TRUE, <<"user", "age">>, <<>>, "The age"),
      Line("property", TRUE, <<"string">>, TRUE, <<"user", "name">>, <<>>, "An optional name"),
      Line("property", TRUE, <<"enum">>, FALSE, <<"user", "kind">>, <<>>, "The kind"),
      Line("property", TRUE, <<"obj">>, FALSE, <<"user", "name">>, <<>>, "desc"),
      Line("property", TRUE, <<"number", "string">>, FALSE, <<"user", "id">>, <<>>, "The id"),
      Line("property", TRUE, <<"string">>, FALSE, <<"user", "name">>, <<>>, "") }

LinePool == ParamLines \cup PropertyLines

Doc(prefixed, multiline, leading, descTags, lines) ==
    [k |-> "doc", prefixed |-> prefixed, multiline |-> multiline,
     leading |-> leading, descTags |-> descTags, lines |-> lines]

Fn(name, commented, shape) ==
    [k |-> "fn", name |-> name, commented |-> commented, shape |-> shape]

OtherCode == [k |-> "code"]

GoodLines == <<Line("param", TRUE, <<"string">>, FALSE, <<"user">>, <<>>, "The user")>>

BadLines == <<Line("param", TRUE, <<"obj">>, FALSE, <<"user">>, <<>>, "desc")>>

ElemPool ==
    { Doc(pm[1], pm[2], <<"Fetch balance">>, <<>>, ls) :
        pm \in {<<FALSE, TRUE>>, <<TRUE, TRUE>>, <<TRUE, FALSE>>},
        ls \in {GoodLines, BadLines} }
    \cup { Doc(FALSE, TRUE, <<"Just testing", "", "a function">>, <<"Explicit text">>, <<>>),
           Doc(FALSE, TRUE, <<>>, <<>>, <<>>),
           Doc(FALSE, TRUE, <<"Fetch balance">>, <<"">>, GoodLines),
           Doc(FALSE, TRUE, <<"Fetch balance">>, <<"", "Explicit text">>, <<>>),
           Doc(FALSE, TRUE, <<"Fetch balance">>, <<"">>, <<>>) }
    \cup { Fn("f", FALSE, "function"), Fn("g", FALSE, "constArrow"),
           Fn("f", TRUE, "function"), Fn("h", FALSE, "method"),
           Fn("unknown", FALSE, "function"), OtherCode }

JsUnit(elems) == [dialect |-> "js", elems |-> elems]

TsUnit(nodes) == [dialect |-> "ts", found |-> TRUE, nodes |-> nodes]

\* A path the program cannot open as a source file.
MissingTsUnit == [dialect |-> "ts", found |-> FALSE, nodes |-> <<>>]

\* One doc block of up to MaxDecls tag lines, followed by its function.
BlockUnits ==
    { JsUnit(<<Doc(FALSE, TRUE, <<"Fetch balance">>, <<>>, ls), Fn("f", FALSE, "function")>>) :
        ls \in SeqsUpTo(LinePool, MaxDecls) }

\* Up to MaxElems doc blocks and code lines.
ElemUnits == { JsUnit(es) : es \in SeqsUpTo(ElemPool, MaxElems) }

\* The members a generated union or intersection draws from.  The checker
\* hands out a union without repeated members.
MemberPool ==
    { TString, TNumber, TUndefined, TNull, TStringLiteral("a"), TStringLiteral("b"),
      TArray(TString), TRef("User"), TRef("Node") }

DistinctSeqs(S, m, n) ==
    { s \in SeqsFromTo(S, m, n) : \A i, j \in DOMAIN s : i # j => s[i] # s[j] }

UnionPool == { TUnion(ms) : ms \in DistinctSeqs(MemberPool, 2, MaxMembers) }

\* A union of object types reports the members its constituents share, an
\* intersection of object types the members of all of them.
SharedName == <<Sym("name", FALSE, TString)>>

TypePool ==
    UnionPool
    \cup MemberPool
    \cup { TBoolean, TAny, TBooleanLiteral,
           TRef("Tree"), TRef("Ping"), TRef("Pong"),
           TArray(TRef("User")), TArray(TUnion(<<TString, TNumber>>)),
           [NoType EXCEPT !.array = TRUE],
           TLiteralType(<<Sym("id", FALSE, TNumber), OptSym("tag", TStringLiteral("a"))>>),
           TLiteralType(<<[name |-> "ghost", optional |-> FALSE, hasDecl |-> FALSE,
                           type |-> TAny]>>),
           [TUnion(<<TRef("User"), TLiteralType(SharedName)>>) EXCEPT !.properties = SharedName],
           TIntersection(<<TString, TNumber>>, <<>>),
           TIntersection(<<TTypeParameter, TArray(TTypeParameter)>>, <<>>),
           TIntersection(<<TTypeParameter, TRef("Node")>>, <<>>),
           TIntersection(<<TUnion(<<TString, TNull>>), TNull>>, <<>>),
           TIntersection(<<TRef("User"), TLiteralType(SharedName)>>,
                         Declared.User.properties) }

TsParam(name, type, questionToken) ==
    [binding |-> "identifier", name |-> name, hasType |-> TRUE, type |-> type,
     questionToken |-> questionToken, elements |-> <<>>]

UntypedParam(name) ==
    [binding |-> "identifier", name |-> name, hasType |-> FALSE, type |-> NoType,
     questionToken |-> FALSE, elements |-> <<>>]

Destructured(hasType, type, elements) ==
    [binding |-> "object", name |-> "", hasType |-> hasType, type |-> type,
     questionToken |-> FALSE, elements |-> elements]

Bound(name) == [isIdentifier |-> TRUE, name |-> name]

\* A parameter written as an array binding pattern, [a, b]: T.
ArrayPattern(type) ==
    [binding |-> "array", name |-> "", hasType |-> TRUE, type |-> type,
     questionToken |-> FALSE, elements |-> <<>>]

Tag(tagName, name, comment) == [tagName |-> tagName, name |-> name, comment |-> comment]

FnNode(kind, hasName, name, tags, parameters) ==
    [kind |-> kind, hasName |-> hasName, name |-> name, tags |-> tags,
     parameters |-> parameters]

DocTags ==
    <<Tag("description", "", "Get balance"), Tag("param", "x", "The x"),
      Tag("param", "name", "The name")>>

NoticeTags == <<Tag("notice", "", "Get balance"), Tag("param", "x", "The x")>>

\* One function of one parameter of each type of the pool, with and without
\* the question token.
OneParamUnits ==
    { TsUnit(<<FnNode("function", TRUE, "f", DocTags, <<TsParam("x", ty, q)>>)>>) :
        ty \in TypePool, q \in BOOLEAN }

OtherTsUnits ==
    { MissingTsUnit,
      TsUnit(<<>>),
      TsUnit(<<FnNode("function", FALSE, "", DocTags, <<TsParam("x", TString, FALSE)>>)>>),
      TsUnit(<<FnNode("arrowVariable", TRUE, "g", NoticeTags,
                      <<TsParam("x", TString, FALSE), UntypedParam("y")>>)>>),
      TsUnit(<<FnNode("arrowVariable", FALSE, "", <<>>, <<>>)>>),
      TsUnit(<<FnNode("function", TRUE, "f", DocTags,
                      <<Destructured(TRUE, TRef("User"), <<Bound("name"), Bound("age")>>)>>)>>),
      TsUnit(<<FnNode("function", TRUE, "f", DocTags,
                      <<Destructured(TRUE, TRef("User"),
                                     <<Bound("email"),
                                       [isIdentifier |-> FALSE, name |-> ""]>>)>>)>>),
      TsUnit(<<FnNode("function", TRUE, "f", DocTags,
                      <<Destructured(FALSE, NoType, <<Bound("name")>>)>>)>>),
      TsUnit(<<FnNode("function", TRUE, "f", DocTags,
                      <<Destructured(TRUE, TRef("Node"), <<Bound("next")>>)>>)>>),
      TsUnit(<<FnNode("function", TRUE, "f", DocTags,
                      <<Destructured(TRUE, TString, <<>>)>>)>>),
      TsUnit(<<FnNode("function", TRUE, "f", DocTags,
                      <<ArrayPattern(TArray(TString)), TsParam("x", TNumber, FALSE)>>)>>),
      TsUnit(<<FnNode("function", TRUE, "f", DocTags,
                      <<ArrayPattern(TArray(TString)), ArrayPattern(TArray(TNumber))>>)>>),
      TsUnit(<<FnNode("function", TRUE, "f", DocTags, <<TsParam("x", TString, FALSE)>>),
               FnNode("function", TRUE, "h", <<>>, <<TsParam("x", TRef("Node"), FALSE)>>)>>),
      TsUnit(<<FnNode("function", TRUE, "f", DocTags, <<TsParam("x", TString, FALSE)>>),
               FnNode("arrowVariable", TRUE, "g", NoticeTags,
                      <<TsParam("y", TUnion(<<TUndefined, TNumber>>), FALSE)>>)>>) }

TsUnits == OneParamUnits \cup OtherTsUnits

\* ParsedAnnotation values: the isOptional flag and the enum are optional
\* fields, and two params can carry one name.
ResolvedParamPool ==
    { [name |-> n, description |-> "The param", schema |-> sch] @@ opt @@ en :
        n \in {<<"a">>, <<"b">>},
        sch \in {[type |-> "string"],
                 [type |-> "number", enum |-> <<"1">>, description |-> "inner"]},
        opt \in {<<>>, [isOptional |-> TRUE], [isOptional |-> FALSE]},
        en \in {<<>>, [enum |-> <<>>], [enum |-> <<"x", "y">>]} }

AnnotationPool ==
    { [notice |-> "Fetch balance", functionName |-> "f", params |-> ps] :
        ps \in SeqsUpTo(ResolvedParamPool, MaxParams) }

\* The source units of a multi-unit run.
FilePool ==
    { JsUnit(<<Doc(FALSE, TRUE, <<"Fetch balance">>, <<>>, GoodLines),
               Fn("f", FALSE, "function")>>),
      JsUnit(<<Doc(FALSE, TRUE, <<"Fetch balance">>, <<>>, GoodLines),
               Fn("f", FALSE, "function"),
               Doc(FALSE, TRUE, <<"Fetch balance">>, <<>>, BadLines),
               Fn("g", FALSE, "constArrow")>>),
      JsUnit(<<Doc(TRUE, TRUE, <<"Fetch balance">>, <<>>, BadLines),
               Fn("f", TRUE, "function"),
               Doc(FALSE, TRUE, <<"Fetch balance">>, <<>>, GoodLines)>>),
      TsUnit(<<FnNode("function", TRUE, "h", NoticeTags, <<TsParam("x", TString, FALSE)>>)>>),
      TsUnit(<<FnNode("function", TRUE, "h", NoticeTags,
                      <<TsParam("x", TRef("Node"), FALSE)>>)>>),
      MissingTsUnit }

---------------------------------------------------------------------------
(* Specifications *)

\* The untyped extractor on one source unit.
InitJs == \E u \in BlockUnits \cup ElemUnits : StartWith(<<u>>)

NextJs ==
    \/ BlockCommentedOut
    \/ BlockThrows
    \/ BlockUnknownFn
    \/ BlockPush
    \/ JsFileDone
    \/ WriteSchemas

SpecJs == InitJs /\ [][NextJs]_vars

\* The typed extractor on one source unit.
InitTs == \E u \in TsUnits : StartWith(<<u>>)

NextTs ==
    \/ TsFile
    \/ TsFileThrows
    \/ WriteSchemas

SpecTs == InitTs /\ [][NextTs]_vars

\* The assembler on one annotation.
InitGen ==
    \E a \in AnnotationPool :
        /\ files = <<>>
        /\ pc = "assemble"
        /\ idx = 1
        /\ pos = 1
        /\ annotations = <<>>
        /\ returned = <<a>>
        /\ schemas = <<>>
        /\ wrote = FALSE
        /\ output = <<>>
        /\ error = NoError

NextGen == Assemble

SpecGen == InitGen /\ [][NextGen]_vars

\* A run of the orchestrator over the source units the glob returned.
Init == \E fs \in SeqsUpTo(FilePool, MaxFiles) : StartWith(fs)

Next ==
    \/ BlockCommentedOut
    \/ BlockThrows
    \/ BlockUnknownFn
    \/ BlockPush
    \/ JsFileDone
    \/ TsFile
    \/ TsFileThrows
    \/ WriteSchemas

Spec == Init /\ [][Next]_vars

---------------------------------------------------------------------------
(* Properties of the assembler *)

\* The places of the params that are not marked optional.
RequiredPlaces(params) ==
    { i \in DOMAIN params : ~("isOptional" \in DOMAIN params[i] /\ params[i].isOptional = TRUE) }

ParametersOf(document) == document.function.parameters

\* C1: for every ParsedAnnotation, the document generateSchema returns has a
\* required list that holds exactly the names of the params whose isOptional
\* is not true (a missing flag counts as required), in params order, and a
\* properties object with one entry per param name.
C1_RequiredAndProperties ==
    pc = "assembled" =>
        \A k \in DOMAIN returned :
            LET params == returned[k].params
                parameters == ParametersOf(schemas[k])
                places == RequiredPlaces(params)
                names == {params[i].name : i \in DOMAIN params}
            IN  /\ Len(parameters.required) = Cardinality(places)
                /\ \A i \in places :
                       parameters.required[Cardinality({h \in places : h <= i})]
                           = params[i].name
                /\ {parameters.properties[i].key : i \in DOMAIN parameters.properties} = names
                /\ Len(parameters.properties) = Cardinality(names)

\* An annotation with an optional param, a param without the flag and a
\* repeated name has been assembled.
C1_Witness ==
    /\ pc = "assembled"
    /\ Len(returned[1].params) = 2
    /\ returned[1].params[1].name = returned[1].params[2].name
    /\ "isOptional" \notin DOMAIN returned[1].params[1]
    /\ "isOptional" \in DOMAIN returned[1].params[2]
    /\ returned[1].params[2].isOptional
    /\ Len(ParametersOf(schemas[1]).required) = 1
    /\ Len(ParametersOf(schemas[1]).properties) = 1

---------------------------------------------------------------------------
(* Properties of the typed extractor *)

\* A typed unit of one visited function whose parameters are all plain
\* identifiers with a type annotation: param i of the annotation is
\* parameter i.
PlainTypedUnit ==
    /\ Len(files) = 1
    /\ files[1].dialect = "ts"
    /\ files[1].found
    /\ Len(files[1].nodes) = 1
    /\ Visited(files[1].nodes[1])
    /\ \A i \in DOMAIN files[1].nodes[1].parameters :
           /\ files[1].nodes[1].parameters[i].binding = "identifier"
           /\ files[1].nodes[1].parameters[i].hasType

\* The unit has been parsed and its annotations assembled.
Parsed == idx = 2 /\ pc \in {"run", "done"}

TheParameter(i) == files[1].nodes[1].parameters[i]

\* T | undefined
IncludesUndefined(t) ==
    /\ Deref(t).union
    /\ \E i \in DOMAIN Deref(t).types : "Undefined" \in Deref(Deref(t).types[i]).flags

DeclaredOptional(parameter) ==
    parameter.questionToken \/ IncludesUndefined(parameter.type)

\* C2: in the typed dialect a parameter whose type is T | undefined or which
\* is declared optional yields a param with isOptional = true, and its name is
\* not in the required list of the assembled document.
C2_OptionalNotRequired ==
    (PlainTypedUnit /\ Parsed) =>
        \A i \in DOMAIN returned[1].params :
            DeclaredOptional(TheParameter(i)) =>
                /\ "isOptional" \in DOMAIN returned[1].params[i]
                /\ returned[1].params[i].isOptional
                /\ \A j \in DOMAIN ParametersOf(schemas[1]).required :
                       ParametersOf(schemas[1]).required[j] # returned[1].params[i].name

\* A type none of the rules before the union rule matches.
UnionRuleApplies(ty) ==
    /\ ty.union
    /\ ty.flags \cap {"StringLiteral", "String", "Number", "Boolean"} = {}
    /\ ~ty.array
    /\ ~ty.classOrInterface
    /\ ty.properties = <<>>

\* The function of the unit has one parameter, whose type is a union.
OneUnionParameter ==
    /\ PlainTypedUnit
    /\ Len(files[1].nodes[1].parameters) = 1
    /\ Deref(TheParameter(1).type).union

\* The fragments of the members of that union, each resolved on its own.
MemberFragments ==
    [i \in DOMAIN Deref(TheParameter(1).type).types |->
        buildJsonSchema(Deref(TheParameter(1).type).types[i], MaxCallDepth - 1)]

MembersResolve == \A i \in DOMAIN MemberFragments : ~IsThrow(MemberFragments[i])

\* The members that did not resolve to bare Unknown.
KeptFragments(fragments) == SelectSeq(fragments, LAMBDA m : m # [type |-> "any"])

StringEnum(m) ==
    "enum" \in DOMAIN m /\ "type" \in DOMAIN m /\ m.type = "string"

\* The fragment of the parameter follows the rule of the claim.
FollowsUnionRule(r, kept) ==
    /\ Len(kept) = 0 => r = [type |-> "any"]
    /\ Len(kept) = 1 => r = kept[1]
    /\ (Len(kept) >= 2 /\ \A i \in DOMAIN kept : StringEnum(kept[i])) =>
           r = [type |-> "string", enum |-> Concat([i \in DOMAIN kept |-> kept[i].enum])]
    /\ (Len(kept) >= 2 /\ \E i \in DOMAIN kept : ~StringEnum(kept[i])) =>
           r = [oneOf |-> kept]

RECURSIVE NoShortOneOf(_)
NoShortOneOf(f) ==
    /\ "oneOf" \in DOMAIN f =>
           Len(f.oneOf) >= 2 /\ \A i \in DOMAIN f.oneOf : NoShortOneOf(f.oneOf[i])
    /\ "allOf" \in DOMAIN f => \A i \in DOMAIN f.allOf : NoShortOneOf(f.allOf[i])
    /\ "items" \in DOMAIN f => NoShortOneOf(f.items)
    /\ "properties" \in DOMAIN f =>
           \A i \in DOMAIN f.properties : NoShortOneOf(f.properties[i].val)

C8_ResolverTerminates ==
    (Len(files) = 1 /\ files[1].dialect = "ts") =>
        ~(pc = "caught" /\ error.message = "Maximum call stack size exceeded")

\* A structured type with named members: an interface, class or object
\* literal type.
StructuredType(ty) ==
    /\ ty.flags = {}
    /\ ~ty.array
    /\ ~ty.union
    /\ ~ty.intersection
    /\ Len(ty.properties) > 0

\* The function of the unit has one parameter, of a structured type.
OneStructuredParameter ==
    /\ PlainTypedUnit
    /\ Len(files[1].nodes[1].parameters) = 1
    /\ StructuredType(Deref(TheParameter(1).type))

MembersOf(parameter) == Deref(parameter.type).properties

\* A member is optional when it is declared optional or typed as a union
\* that contains undefined.
OptionalMember(member) == member.optional \/ IncludesUndefined(member.type)

NamesOf(members) == [i \in DOMAIN members |-> members[i].name]

\* C11: for every structured type with named members the resolver returns an
\* object fragment whose properties hold the resolved fragment of every member
\* in declaration order and whose required list holds a member's name iff the
\* member is not optional.
C11_ObjectMembers ==
    OneStructuredParameter =>
        /\ pc # "caught"
        /\ Parsed =>
               LET fragment == returned[1].params[1].schema
                   members == MembersOf(TheParameter(1))
               IN  /\ fragment.type = "object"
                   /\ Len(fragment.properties) = Len(members)
                   /\ \A i \in DOMAIN members :
                          /\ fragment.properties[i].key = members[i].name
                          /\ fragment.properties[i].val
                                 = buildJsonSchema(members[i].type, MaxCallDepth - 1)
                   /\ fragment.required
                          = NamesOf(SelectSeq(members, LAMBDA m : ~OptionalMember(m)))

\* A parameter of a type with a required and an optional member has given an
\* object fragment that requires the first only.
C11_Witness ==
    /\ OneStructuredParameter
    /\ Parsed
    /\ Len(MembersOf(TheParameter(1))) = 2
    /\ \E i \in 1..2 : OptionalMember(MembersOf(TheParameter(1))[i])
    /\ Len(returned[1].params[1].schema.required) = 1

\* The run is over one typed source unit that the program can open.
OneTsUnit == Len(files) = 1 /\ files[1].dialect = "ts" /\ files[1].found

VisitedNodes == SelectSeq(files[1].nodes, Visited)

\* The texts of the description and notice tags of a function.
DescriptionTexts(node) ==
    { node.tags[i].comment : i \in { j \in DOMAIN node.tags :
                                         node.tags[j].tagName \in {"description", "notice"} } }

\* C12: in the typed dialect the annotation's notice, and so the document's
\* function description, is the text of the function's description tag or
\* notice tag when it has one, and the empty string only when it has neither.
C12_NoticeFromTag ==
    (OneTsUnit /\ Parsed) =>
        \A k \in DOMAIN returned :
            /\ schemas[k].function.description = returned[k].notice
            /\ IF DescriptionTexts(VisitedNodes[k]) = {}
               THEN returned[k].notice = ""
               ELSE returned[k].notice \in DescriptionTexts(VisitedNodes[k])

\* A function that carries a notice tag has been parsed and its document
\* carries the text of the tag.
C12_Witness ==
    /\ OneTsUnit
    /\ Parsed
    /\ Len(returned) = 1
    /\ \E i \in DOMAIN VisitedNodes[1].tags : VisitedNodes[1].tags[i].tagName = "notice"
    /\ returned[1].notice = "Get balance"
    /\ schemas[1].function.description = "Get balance"

\* A type none of the rules before the intersection rule matches.
IntersectionRuleApplies(ty) ==
    /\ ty.intersection
    /\ ~ty.union
    /\ ty.flags \cap {"StringLiteral", "String", "Number", "Boolean"} = {}
    /\ ~ty.array
    /\ ~ty.classOrInterface
    /\ ty.properties = <<>>

\* The function of the unit has one parameter, whose type is an intersection.
OneIntersectionParameter ==
    /\ PlainTypedUnit
    /\ Len(files[1].nodes[1].parameters) = 1
    /\ Deref(TheParameter(1).type).intersection

RECURSIVE NoEmptyAllOf(_)
NoEmptyAllOf(f) ==
    /\ "allOf" \in DOMAIN f =>
           Len(f.allOf) > 0 /\ \A i \in DOMAIN f.allOf : NoEmptyAllOf(f.allOf[i])
    /\ "oneOf" \in DOMAIN f => \A i \in DOMAIN f.oneOf : NoEmptyAllOf(f.oneOf[i])
    /\ "items" \in DOMAIN f => NoEmptyAllOf(f.items)
    /\ "properties" \in DOMAIN f =>
           \A i \in DOMAIN f.properties : NoEmptyAllOf(f.properties[i].val)

---------------------------------------------------------------------------
(* Properties of the untyped extractor *)

\* The run is over one untyped source unit.
OneJsUnit == Len(files) = 1 /\ files[1].dialect = "js"

\* The n-th doc block of the unit.
BlockAt(n) == files[1].elems[DocPositions(files[1])[n]]

\* The number of doc blocks parseJsAnnotations has gone past.
Processed == IF idx > 1 THEN Len(DocPositions(files[1])) ELSE pos - 1

\* The declarations of a tag family a doc block holds: its lines of that tag
\* with a braced type, as written.
Written(doc, tag) == SelectSeq(doc.lines, LAMBDA l : l.tag = tag /\ l.braces)

\* The declarations of a doc block, the parameters before the nested fields.
Declarations(doc) == Written(doc, "param") \o Written(doc, "property")

InVocabulary(token) ==
    \E i \in DOMAIN JSON_SCHEMA_TYPES : JSON_SCHEMA_TYPES[i] = toLowerCase(token)

\* A type token that is neither a union nor the enum token.
PlainToken(l) == Len(l.rawType) = 1 /\ toLowerCase(l.rawType[1]) # "enum"

InvalidPlain(l) == PlainToken(l) /\ ~InVocabulary(l.rawType[1])

InvalidUnion(l) ==
    Len(l.rawType) > 1 /\ \E i \in DOMAIN l.rawType : ~InVocabulary(l.rawType[i])

Invalid(l) == InvalidPlain(l) \/ InvalidUnion(l)

HasInvalid(doc) == \E i \in DOMAIN Declarations(doc) : Invalid(Declarations(doc)[i])

\* C3: a declaration whose plain (non-union, non-enum) type token is outside
\* the seven tokens makes the extraction fail with an error that names the
\* token and lists the seven tokens, and a token of the set never fails: no
\* doc block that holds such a declaration is gone past, and the extraction
\* fails only at a block that has an invalid token.  (The token is compared
\* without regard to case, as the code compares it.)
C3_InvalidTokenFails ==
    OneJsUnit =>
        /\ \A n \in 1..Processed :
               ~isCommentedOut(BlockAt(n)) =>
                   \A i \in DOMAIN Declarations(BlockAt(n)) :
                       ~InvalidPlain(Declarations(BlockAt(n))[i])
        /\ pc = "caught" =>
               /\ HasInvalid(BlockAt(pos))
               /\ error.valid = <<"string", "number", "integer", "boolean",
                                  "object", "array", "null">>

\* C4: untyped extraction of a unit is all-or-nothing: when a doc block that
\* is not commented out has an invalid type token, parseJsAnnotations never
\* returns, so no annotation of the unit reaches the orchestrator, the
\* annotations of earlier valid blocks included.
C4_AllOrNothing ==
    (/\ OneJsUnit
     /\ \E n \in DOMAIN DocPositions(files[1]) :
            ~BlockAt(n).prefixed /\ HasInvalid(BlockAt(n)))
    => /\ idx = 1
       /\ pc # "done"
       /\ returned = <<>>
       /\ schemas = <<>>
       /\ ~wrote

\* The unit has one doc block, and the document of its annotation has been
\* assembled.
OneBlockAssembled ==
    /\ OneJsUnit
    /\ Len(DocPositions(files[1])) = 1
    /\ idx = 2
    /\ Len(schemas) = 1

\* The names the @param declarations of a doc block declare.
ParamNames(doc) ==
    { Written(doc, "param")[i].bname.path : i \in DOMAIN Written(doc, "param") }

\* The last declaration of that name in its tag family: the one in force.
LastWritten(doc, tag, name) ==
    LET ls == SelectSeq(Written(doc, tag), LAMBDA l : l.bname.path = name)
    IN  ls[Len(ls)]

ObjectTyped(l) == Len(l.rawType) = 1 /\ toLowerCase(l.rawType[1]) = "object"

PropertyOf(name) == Get(ParametersOf(schemas[1]).properties, name)

Listed(list, x) == \E j \in DOMAIN list : list[j] = x

RequiredOfFragment(fragment) ==
    IF "required" \in DOMAIN fragment THEN fragment.required ELSE <<>>

\* C6: a nested-field declaration <parent>.<field> whose parent is a top-level
\* object-typed declaration is in the parent's schema.properties under the key
\* <field>, <field> is in the parent's required list iff the nested
\* declaration is not bracketed, and the parent is in the document's required
\* list iff it is not bracketed.
C6_NestedFields ==
    OneBlockAssembled =>
        \A i \in DOMAIN Written(BlockAt(1), "property") :
            \A parentName \in ParamNames(BlockAt(1)) :
                LET q == Written(BlockAt(1), "property")[i]
                    p == LastWritten(BlockAt(1), "param", parentName)
                    field == SubSeq(q.bname.path, Len(parentName) + 1, Len(q.bname.path))
                IN  (startsWithDot(q.bname.path, parentName) /\ ObjectTyped(p)) =>
                        /\ HasKey(ParametersOf(schemas[1]).properties, parentName)
                        /\ "properties" \in DOMAIN PropertyOf(parentName)
                        /\ HasKey(PropertyOf(parentName).properties, field)
                        /\ ~q.bname.brackets
                               <=> Listed(RequiredOfFragment(PropertyOf(parentName)), field)
                        /\ ~p.bname.brackets
                               <=> Listed(ParametersOf(schemas[1]).required, parentName)

\* The variants a union token stands for: one per member, in written order.
VariantsOf(l) == [i \in DOMAIN l.rawType |-> [type |-> toLowerCase(l.rawType[i])]]

\* C9: a pipe-delimited type token whose members are all valid resolves to a
\* oneOf with one primitive variant per member in the order written, nothing
\* sorted, dropped or merged, and the parameter is in the document's required
\* list unless its name is bracketed.
C9_UnionOneOf ==
    OneBlockAssembled =>
        \A name \in ParamNames(BlockAt(1)) :
            LET l == LastWritten(BlockAt(1), "param", name)
            IN  Len(l.rawType) > 1 =>
                    /\ HasKey(ParametersOf(schemas[1]).properties, name)
                    /\ "oneOf" \in DOMAIN PropertyOf(name)
                    /\ PropertyOf(name).oneOf = VariantsOf(l)
                    /\ ~l.bname.brackets
                           <=> Listed(ParametersOf(schemas[1]).required, name)

EnumToken(l) == Len(l.rawType) = 1 /\ toLowerCase(l.rawType[1]) = "enum"

EveryValueNumeric(list) == \A i \in DOMAIN list : list[i] \in NumericText

\* C10: an enum declaration followed by a bracketed list gives a property
\* whose enum is the listed values in written order and whose type is number
\* when every value reads as a number and string otherwise, and the name is
\* in the required list.  (The declaration is read with its type in braces,
\* @param {enum} name [a, b], and with a name that is not bracketed, as the
\* code reads a required declaration.)
C10_EnumList ==
    OneBlockAssembled =>
        \A name \in ParamNames(BlockAt(1)) :
            LET l == LastWritten(BlockAt(1), "param", name)
            IN  (EnumToken(l) /\ l.list # <<>> /\ ~l.bname.brackets) =>
                    /\ HasKey(ParametersOf(schemas[1]).properties, name)
                    /\ "enum" \in DOMAIN PropertyOf(name)
                    /\ PropertyOf(name).enum = l.list
                    /\ PropertyOf(name).type
                           = IF EveryValueNumeric(l.list) THEN "number" ELSE "string"
                    /\ Listed(ParametersOf(schemas[1]).required, name)

---------------------------------------------------------------------------
(* Properties of a run *)

\* The documents of a unit whose extraction does not fail.
DocumentsOf(unit) ==
    IF parseAnnotations(unit).threw THEN <<>>
    ELSE [i \in DOMAIN parseAnnotations(unit).annotations |->
             generateSchema(parseAnnotations(unit).annotations[i])]

\* The run is over: the documents were written, or an invalid type token of
\* some unit was reported.
RunOver ==
    \/ pc = "done"
    \/ pc = "caught" /\ error.message \in {"Invalid type", "Invalid type(s) in union"}

\* C5: in a multi-unit run a fatal error in one source unit aborts only that
\* unit: when the run is over the writer has been handed the documents of
\* every other unit, those before and those after the failing one.
C5_OtherUnitsWritten ==
    (Len(files) > 1 /\ RunOver) =>
        /\ wrote
        /\ output = Concat([i \in DOMAIN files |-> DocumentsOf(files[i])])

---------------------------------------------------------------------------
(* Properties of both extractors: which functions get an annotation *)

\* No line after the doc block at the current position is an uncommented
\* declaration of a recognized shape.
NoFunctionFollows ==
    \A j \in (DocPositions(files[idx])[pos] + 1)..Len(files[idx].elems) :
        ~(/\ files[idx].elems[j].k = "fn"
          /\ ~files[idx].elems[j].commented
          /\ files[idx].elems[j].shape \in RecognizedShapes)

\* The loop body has run for the typed unit at idx.
TypedUnitParsed == InLoop /\ files[idx].dialect = "ts" /\ idx' = idx + 1

\* C13: the untyped extractor pushes no annotation for a doc block that no
\* recognized function declaration follows, and never one named "unknown";
\* the typed extractor gives every function of the unit an annotation, named
\* "anonymous" when the function has no name.
C13_UnknownAndAnonymous ==
    [][/\ (AtBlock /\ NoFunctionFollows) => Len(annotations') <= Len(annotations)
       /\ \A i \in DOMAIN annotations' : annotations'[i].functionName # "unknown"
       /\ TypedUnitParsed =>
              /\ Len(returned') = Len(files[idx].nodes)
              /\ \A k \in DOMAIN returned' :
                     returned'[k].functionName
                         = IF files[idx].nodes[k].hasName THEN files[idx].nodes[k].name
                           ELSE "anonymous"]_vars

\* A variable bound to an arrow function has no recoverable name and its
\* annotation is named "anonymous".
C13_Witness ==
    /\ OneTsUnit
    /\ Parsed
    /\ Len(files[1].nodes) = 1
    /\ ~files[1].nodes[1].hasName
    /\ Len(returned) = 1
    /\ returned[1].functionName = "anonymous"

\* The doc block at the current position sits behind line-comment markers.
AtCommentedOutBlock ==
    AtBlock /\ files[idx].elems[DocPositions(files[idx])[pos]].prefixed

\* C14: a doc block that is itself commented out, on one line or on several,
\* produces no annotation: the turn of the loop at such a block pushes
\* nothing, whatever function appears later in the source.
C14_CommentedOutSkipped ==
    [][AtCommentedOutBlock => Len(annotations') <= Len(annotations)]_vars

\* A commented-out doc block of several lines has been passed without an
\* annotation although a function follows it.
C14_Witness ==
    /\ OneJsUnit
    /\ pc = "run"
    /\ idx = 1
    /\ pos = 2
    /\ annotations = <<>>
    /\ files[1].elems[DocPositions(files[1])[1]].prefixed
    /\ files[1].elems[DocPositions(files[1])[1]].multiline
    /\ \E j \in DOMAIN files[1].elems :
           /\ j > DocPositions(files[1])[1]
           /\ files[1].elems[j].k = "fn"
           /\ ~files[1].elems[j].commented
           /\ files[1].elems[j].shape \in RecognizedShapes

---------------------------------------------------------------------------
(* Properties of the untyped extractor: the declarations of one doc block *)

\* The doc block at the current position.
CurrentBlock == files[idx].elems[DocPositions(files[idx])[pos]]

\* A tag line that neither pattern matches: its type is not wrapped in braces.
Unmatched(l) == ~l.braces

\* C15: a declaration line that matches neither recognized shape makes the
\* extraction of the unit fail with an error that echoes the line; it is
\* never passed over in silence.
C15_MalformedFails ==
    [][(/\ AtBlock
        /\ ~isCommentedOut(CurrentBlock)
        /\ \E i \in DOMAIN CurrentBlock.lines : Unmatched(CurrentBlock.lines[i]))
       => /\ pc' = "caught"
          /\ "line" \in DOMAIN error'
          /\ \E i \in DOMAIN CurrentBlock.lines :
                 /\ Unmatched(CurrentBlock.lines[i])
                 /\ error'.line = LineText(CurrentBlock.lines[i])]_vars

\* A doc block whose only declaration has no braces has been parsed to an
\* annotation without params.
C15_Witness ==
    /\ OneJsUnit
    /\ pc = "run"
    /\ pos = 2
    /\ Len(BlockAt(1).lines) = 1
    /\ Unmatched(BlockAt(1).lines[1])
    /\ Len(annotations) = 1
    /\ annotations[1].params = <<>>

\* The params of the annotation of the block that carry the name.
ParamsNamed(name) ==
    SelectSeq(returned[1].params, LAMBDA p : p.name = name)

\* The schema a top-level declaration stands for, nested fields apart.
DeclaredType(l) ==
    IF Len(l.rawType) > 1 THEN [oneOf |-> VariantsOf(l)]
    ELSE IF EnumToken(l)
    THEN IF l.list # <<>>
         THEN [type |-> IF EveryValueNumeric(l.list) THEN "number" ELSE "string",
               enum |-> l.list]
         ELSE [type |-> "any"]
    ELSE [type |-> toLowerCase(l.rawType[1])]

\* The param is the one the declaration describes.
ComesFrom(p, l) ==
    /\ p.description = l.desc
    /\ p.isOptional = l.bname.brackets
    /\ \A f \in DOMAIN DeclaredType(l) :
           f \in DOMAIN p.schema /\ p.schema[f] = DeclaredType(l)[f]
    /\ IF EnumToken(l) /\ l.list # <<>>
       THEN "enum" \in DOMAIN p /\ p.enum = l.list
       ELSE "enum" \notin DOMAIN p

\* Two top-level declarations of the block share a name.
RepeatedName(doc, name) ==
    Len(SelectSeq(Written(doc, "param"), LAMBDA l : l.bname.path = name)) > 1

\* C16: when two top-level declarations of a doc block share a name, the
\* annotation has exactly one param of that name, and its schema,
\* description, optionality and enum values are those of the later
\* declaration; the params of the other names are those of their own
\* declarations.
C16_LastWriteWins ==
    (OneBlockAssembled /\ \E name \in ParamNames(BlockAt(1)) : RepeatedName(BlockAt(1), name))
    => \A name \in ParamNames(BlockAt(1)) :
           /\ Len(ParamsNamed(name)) = 1
           /\ ComesFrom(ParamsNamed(name)[1], LastWritten(BlockAt(1), "param", name))

\* No declaration of the block ends after its name with a line behind it.
NoLineSwallowed(doc) ==
    \A i \in 1..(Len(doc.lines) - 1) : ~(doc.lines[i].braces /\ EndsAfterName(doc.lines[i]))

\* A name declared twice, as a string and then as an optional object, has
\* given one param, the optional object.
C16_Witness ==
    /\ OneBlockAssembled
    /\ NoLineSwallowed(BlockAt(1))
    /\ RepeatedName(BlockAt(1), <<"user">>)
    /\ Len(ParamsNamed(<<"user">>)) = 1
    /\ ParamsNamed(<<"user">>)[1].isOptional
    /\ ParamsNamed(<<"user">>)[1].schema.type = "object"
    /\ ParamsNamed(<<"user">>)[1].description = "An optional user"

---------------------------------------------------------------------------
(* Properties of the assembler: the property of one param *)

\* The param carries a non-empty enum list.
CarriesEnum(p) == "enum" \in DOMAIN p /\ Len(p.enum) > 0

\* The property holds the fields of the param's fragment, the param's own
\* description in place of an embedded one, and the param's enum list, when
\* it is not empty, in place of an embedded one.
MergedFrom(property, p) ==
    /\ DOMAIN property
           = DOMAIN p.schema \cup {"description"}
             \cup (IF CarriesEnum(p) THEN {"enum"} ELSE {})
    /\ property.description = p.description
    /\ \A f \in DOMAIN p.schema \ {"description", "enum"} : property[f] = p.schema[f]
    /\ "enum" \in DOMAIN property =>
           property.enum = IF CarriesEnum(p) THEN p.enum ELSE p.schema.enum

\* C17: for every param the property generateSchema emits under the param's
\* name holds all fields of the param's schema fragment, except that its
\* description is the param's own and, when the param carries a non-empty
\* enum list, its enum is that list.
C17_PropertyMerged ==
    pc = "assembled" =>
        \A k \in DOMAIN returned :
            \A i \in DOMAIN returned[k].params :
                MergedFrom(Get(ParametersOf(schemas[k]).properties,
                               returned[k].params[i].name),
                           returned[k].params[i])

\* A param whose fragment embeds a description and an enum, and which carries
\* an enum list of its own, has been assembled.
C17_Witness ==
    /\ pc = "assembled"
    /\ Len(returned[1].params) = 1
    /\ "description" \in DOMAIN returned[1].params[1].schema
    /\ "enum" \in DOMAIN returned[1].params[1].schema
    /\ CarriesEnum(returned[1].params[1])
    /\ ParametersOf(schemas[1]).properties[1].val
           = [type |-> "number", description |-> "The param", enum |-> <<"x", "y">>]

---------------------------------------------------------------------------
(* Properties of both extractors: the names of the params *)

\* The run is over one source unit, and its annotations have been assembled.
OneUnitAssembled == Len(files) = 1 /\ idx = 2

Distinct(list) == \A i, j \in DOMAIN list : i # j => list[i] # list[j]

\* The place of the first declaration of the name among the @param
\* declarations of the doc block.
FirstWritten(doc, name) ==
    CHOOSE i \in DOMAIN Written(doc, "param") :
        /\ Written(doc, "param")[i].bname.path = name
        /\ \A j \in 1..(i - 1) : Written(doc, "param")[j].bname.path # name

\* The params of the annotation follow the order of the declarations: of the
\* parameters of the function in the typed dialect, of the first @param
\* declaration of each name in the untyped dialect.
InDeclarationOrder(k) ==
    IF files[1].dialect = "ts"
    THEN PlainTypedUnit =>
             \A i \in DOMAIN returned[k].params :
                 returned[k].params[i].name = <<TheParameter(i).name>>
    ELSE Len(DocPositions(files[1])) = 1 =>
             \A i, j \in DOMAIN returned[k].params :
                 i < j => FirstWritten(BlockAt(1), returned[k].params[i].name)
                              < FirstWritten(BlockAt(1), returned[k].params[j].name)

\* C18: in every annotation either extractor produces the param names are
\* pairwise distinct and in declaration order, so that the required list of
\* the assembled document holds no name twice and the document has one
\* property per param.
C18_DistinctNames ==
    OneUnitAssembled =>
        \A k \in DOMAIN returned :
            /\ Distinct([i \in DOMAIN returned[k].params |-> returned[k].params[i].name])
            /\ InDeclarationOrder(k)
            /\ Distinct(ParametersOf(schemas[k]).required)
            /\ Len(ParametersOf(schemas[k]).properties) = Len(returned[k].params)

\* A function of an array-pattern parameter and a named parameter has given
\* two params of distinct names and a document with a property for each.
C18_Witness ==
    /\ OneTsUnit
    /\ Parsed
    /\ Len(returned) = 1
    /\ Len(returned[1].params) = 2
    /\ returned[1].params[1].name = <<"anonymousParam">>
    /\ returned[1].params[2].name = <<"x">>
    /\ Len(ParametersOf(schemas[1]).properties) = 2
    /\ ParametersOf(schemas[1]).required = <<<<"anonymousParam">>, <<"x">>>>

\* The annotations of the unit: those pushed so far and those returned.
ExtractedSoFar == annotations \o returned

\* C19: no top-level param of an annotation of the untyped extractor has a
\* dotted name: a dotted name only occurs as a nested field, folded into the
\* properties of its parent.
C19_NoDottedName ==
    OneJsUnit =>
        \A k \in DOMAIN ExtractedSoFar :
            \A i \in DOMAIN ExtractedSoFar[k].params :
                Len(ExtractedSoFar[k].params[i].name) = 1

\* A block with an object param and a nested field declared with @property
\* has given one param, the object, with the field folded in.
C19_Witness ==
    /\ OneBlockAssembled
    /\ Len(Written(BlockAt(1), "param")) = 1
    /\ Len(Written(BlockAt(1), "property")) = 1
    /\ Len(returned[1].params) = 1
    /\ returned[1].params[1].name = <<"user">>
    /\ "properties" \in DOMAIN returned[1].params[1].schema
    /\ Len(returned[1].params[1].schema.properties) = 1

---------------------------------------------------------------------------
(* Properties of the untyped extractor: union tokens *)

\* The members of a union token that are outside the seven tokens, in the
\* order written, as the code compares them.
InvalidMembers(l) ==
    SelectSeq([i \in DOMAIN l.rawType |-> toLowerCase(l.rawType[i])],
              LAMBDA m : ~InVocabulary(m))

\* C20: a pipe-delimited union token with one or more invalid members makes
\* the extraction fail with one error that lists every invalid member of that
\* union and the valid set: no doc block that holds such a declaration is
\* gone past, and an error about a union lists all invalid members of a union
\* of the failing block.  A union whose members are all valid never fails.
C20_UnionErrorListsAll ==
    OneJsUnit =>
        /\ \A n \in 1..Processed :
               ~isCommentedOut(BlockAt(n)) =>
                   \A i \in DOMAIN Declarations(BlockAt(n)) :
                       ~InvalidUnion(Declarations(BlockAt(n))[i])
        /\ (pc = "caught" /\ error.message = "Invalid type(s) in union") =>
               /\ \E i \in DOMAIN Declarations(BlockAt(pos)) :
                      /\ InvalidUnion(Declarations(BlockAt(pos))[i])
                      /\ error.tokens = InvalidMembers(Declarations(BlockAt(pos))[i])
               /\ error.valid = <<"string", "number", "integer", "boolean",
                                  "object", "array", "null">>

\* The extraction has failed at a union with two invalid members, and the
\* error lists both.
C20_Witness ==
    /\ OneJsUnit
    /\ pc = "caught"
    /\ error.message = "Invalid type(s) in union"
    /\ error.tokens = <<"obj", "foo">>

---------------------------------------------------------------------------
(* Properties of the untyped extractor: the notice *)

\* The lines, less the empty ones, joined by single spaces.
RECURSIVE JoinedBySpaces(_)
JoinedBySpaces(lines) ==
    IF lines = <<>> THEN ""
    ELSE IF Head(lines) = "" THEN JoinedBySpaces(Tail(lines))
    ELSE IF JoinedBySpaces(Tail(lines)) = "" THEN Head(lines)
    ELSE Head(lines) \o " " \o JoinedBySpaces(Tail(lines))

\* The turn of the loop at the current doc block pushes an annotation.
Pushes == AtBlock /\ Len(annotations') = Len(annotations) + 1

\* The notice the doc block is to give: the text of its description tag, or
\* the leading lines when it has no such tag or the tag has no text.
NoticeOf(doc) ==
    IF doc.descTags # <<>> /\ doc.descTags[1] # "" THEN doc.descTags[1]
    ELSE JoinedBySpaces(doc.leading)

\* C22: the notice of the annotation of a doc block is the text of its
\* explicit description tag when it has one, and otherwise its leading
\* free-text lines joined by single spaces, the empty string when it has
\* neither.
C22_NoticeOfDocBlock ==
    [][Pushes => annotations'[Len(annotations')].notice = NoticeOf(CurrentBlock)]_vars

\* A doc block whose description tag has nothing behind it on its line and
\* is followed by a parameter declaration has given an annotation whose
\* notice is the text of the declaration line.
C22_Witness ==
    /\ OneJsUnit
    /\ Len(ExtractedSoFar) = 1
    /\ BlockAt(1).descTags = <<"">>
    /\ BlockAt(1).lines # <<>>
    /\ ExtractedSoFar[1].notice = LineText(BlockAt(1).lines[1])

---------------------------------------------------------------------------
(* Properties of the untyped extractor: doc blocks without a function *)

\* C23: a doc block that no recognizable function follows is not fatal,
\* whatever it contains: the turn of the loop at such a block does not fail,
\* even when a declaration of the block has an invalid type token, and it
\* leaves the annotations pushed so far as they are.
C23_NoFunctionNotFatal ==
    [][(AtBlock /\ NoFunctionFollows)
       => (pc' # "caught" /\ annotations' = annotations)]_vars

\* The extraction has failed at a doc block with an invalid type token that
\* no function follows, and the annotation of the block and function before
\* it is lost with the rest.
C23_Witness ==
    /\ OneJsUnit
    /\ pc = "caught"
    /\ pos = 2
    /\ blockStep(files[1], 1).kind = "push"
    /\ annotations = <<>>
    /\ returned = <<>>
    /\ HasInvalid(BlockAt(2))
    /\ \A j \in (DocPositions(files[1])[2] + 1)..Len(files[1].elems) :
           files[1].elems[j].k # "fn"

---------------------------------------------------------------------------
(* Properties of the untyped extractor: which function a doc block names *)

\* The element is a function declaration findNextFunctionName reads a name from.
Recognizable(e) == e.k = "fn" /\ ~e.commented /\ e.shape \in RecognizedShapes

\* The doc block at the current position is directly followed by a
\* recognizable declaration of the function.
DirectlyDocuments(name) ==
    /\ DocPositions(files[idx])[pos] < Len(files[idx].elems)
    /\ Recognizable(files[idx].elems[DocPositions(files[idx])[pos] + 1])
    /\ files[idx].elems[DocPositions(files[idx])[pos] + 1].name = name

\* The number of recognizable declarations of the function in the unit.
TimesDeclared(unit, name) ==
    Cardinality({j \in DOMAIN unit.elems :
                    Recognizable(unit.elems[j]) /\ unit.elems[j].name = name})

\* C24: within one untyped source unit every annotation is named after the
\* function its doc block directly documents: a doc block followed by
\* another doc block or by other code is not attributed to a function
\* further down, and two doc blocks give annotations of the same
\* functionName only when the source declares that function twice.
C24_NamedAfterOwnFunction ==
    [][Pushes =>
          /\ DirectlyDocuments(annotations'[Len(annotations')].functionName)
          /\ \A k \in DOMAIN annotations :
                 annotations[k].functionName = annotations'[Len(annotations')].functionName
                     => TimesDeclared(files[idx],
                                      annotations[k].functionName) > 1]_vars

\* Two doc blocks in a row before the one declaration of a function have
\* given two annotations of that function's name.
C24_Witness ==
    /\ OneJsUnit
    /\ Len(files[1].elems) = 3
    /\ files[1].elems[1].k = "doc"
    /\ files[1].elems[2].k = "doc"
    /\ Recognizable(files[1].elems[3])
    /\ Len(ExtractedSoFar) = 2
    /\ ExtractedSoFar[1].functionName = files[1].elems[3].name
    /\ ExtractedSoFar[2].functionName = files[1].elems[3].name

---------------------------------------------------------------------------
(* Properties of the untyped extractor: the required list of a folded object *)

\* C25: for every object-typed param the untyped extractor has folded nested
\* fields into, each name of the schema's required list is a key of its
\* properties and occurs once, and a key of properties is in required iff
\* the declaration that defines the property's schema, the last one of that
\* nested field, is not optional.
C25_RequiredOfFoldedObject ==
    OneBlockAssembled =>
        \A i \in DOMAIN returned[1].params :
            LET p == returned[1].params[i]
                required == RequiredOfFragment(p.schema)
            IN  "properties" \in DOMAIN p.schema =>
                    /\ Distinct(required)
                    /\ \A j \in DOMAIN required : HasKey(p.schema.properties, required[j])
                    /\ \A j \in DOMAIN p.schema.properties :
                           Listed(required, p.schema.properties[j].key)
                               <=> ~LastWritten(BlockAt(1), "property",
                                                p.name \o p.schema.properties[j].key).bname.brackets

\* An object param with the same nested field declared twice, both times
\* required, has been folded, and its required list names the field twice.
C25_Witness ==
    /\ OneBlockAssembled
    /\ NoLineSwallowed(BlockAt(1))
    /\ Len(returned[1].params) = 1
    /\ "properties" \in DOMAIN returned[1].params[1].schema
    /\ Len(returned[1].params[1].schema.properties) = 1
    /\ RequiredOfFragment(returned[1].params[1].schema) = <<<<"name">>, <<"name">>>>

---------------------------------------------------------------------------
(* Properties of the untyped extractor: the vocabulary of emitted types *)

\* Every type of the fragment, of its oneOf variants and of its nested
\* fields is one of the seven tokens.
TypesInVocabulary(fragment) ==
    /\ "type" \in DOMAIN fragment => InVocabulary(fragment.type)
    /\ "oneOf" \in DOMAIN fragment =>
           \A v \in DOMAIN fragment.oneOf : InVocabulary(fragment.oneOf[v].type)
    /\ "properties" \in DOMAIN fragment =>
           \A j \in DOMAIN fragment.properties :
               LET field == fragment.properties[j].val
               IN  /\ "type" \in DOMAIN field => InVocabulary(field.type)
                   /\ "oneOf" \in DOMAIN field =>
                          \A v \in DOMAIN field.oneOf : InVocabulary(field.oneOf[v].type)

\* The fragment of an enum declaration: string or number, with its values.
EnumFragment(fragment) ==
    /\ "type" \in DOMAIN fragment
    /\ fragment.type \in {"string", "number"}
    /\ "enum" \in DOMAIN fragment

\* C26: every type the untyped extractor emits, for top-level params, nested
\* fields and oneOf variants alike, is one of string, number, integer,
\* boolean, object, array, null; and an enum declaration gives a fragment of
\* type string or number with its values attached, also as a nested field
\* and also without a bracketed list.
C26_ClosedVocabulary ==
    /\ OneJsUnit =>
           \A k \in DOMAIN ExtractedSoFar :
               \A i \in DOMAIN ExtractedSoFar[k].params :
                   TypesInVocabulary(ExtractedSoFar[k].params[i].schema)
    /\ OneBlockAssembled =>
           \A i \in DOMAIN returned[1].params :
               LET p == returned[1].params[i]
               IN  /\ EnumToken(LastWritten(BlockAt(1), "param", p.name))
                          => EnumFragment(p.schema)
                   /\ "properties" \in DOMAIN p.schema =>
                          \A j \in DOMAIN p.schema.properties :
                              EnumToken(LastWritten(BlockAt(1), "property",
                                                    p.name \o p.schema.properties[j].key))
                                  => EnumFragment(p.schema.properties[j].val)

\* An object param with a nested field declared as an enum has been folded,
\* and the field's fragment has the type any and no values.
C26_Witness ==
    /\ OneBlockAssembled
    /\ NoLineSwallowed(BlockAt(1))
    /\ Len(returned[1].params) = 1
    /\ "properties" \in DOMAIN returned[1].params[1].schema
    /\ Len(Written(BlockAt(1), "property")) = 1
    /\ EnumToken(Written(BlockAt(1), "property")[1])
    /\ returned[1].params[1].schema.properties[1].val.type = "any"
    /\ "enum" \notin DOMAIN returned[1].params[1].schema.properties[1].val

====
